---- MODULE Spec2Model ----
(***************************************************************************)
(* Model of the Binance Futures Testnet trading bot (src/bot.py):          *)
(* the signed HTTP client (_sign, _post, _get), the two trading            *)
(* operations (get_balance, place_order) and the interactive menu loop.    *)
(*                                                                         *)
(* Two specifications are given.  Spec is the program as started from      *)
(* __main__: the menu loop, one step per blocking input() call.  SpecApi   *)
(* is the class BasicBot used as a library: its methods called with        *)
(* arguments drawn from bounded sets, including a parameter mapping the    *)
(* caller keeps and passes again.                                          *)
(***************************************************************************)
EXTENDS Integers, Sequences, FiniteSets, TLC

VARIABLES
    pc,          \* menu: position of the loop (which input() it blocks on)
    entered,     \* menu: the line the last input() returned
    choice,      \* menu: local `choice`
    symbol,      \* menu: local `symbol`
    side,        \* menu: local `side`
    qty,         \* menu: local `qty`
    stop_price,  \* menu: local `stop_price`
    balance,     \* menu: local `balance` (stays bound across iterations)
    events,      \* what the current/last menu iteration did, in order
    reqs,        \* requests the current/last iteration handed to the HTTP layer
    data,        \* menu: local `data` (stays bound across iterations)
    api_secret,  \* self.api_secret
    uses,        \* library use: how often the caller has passed the same mapping
    last,        \* library use: the last call, its result, the mapping as it left it
    signLog      \* library use: the last two _sign calls

vars == <<pc, entered, choice, symbol, side, qty, stop_price, balance, events, reqs, data,
          api_secret, uses, last, signLog>>

menuVars == <<pc, entered, choice, symbol, side, qty, stop_price, balance, events, reqs, data>>
apiVars  == <<uses, last, signLog>>

-----------------------------------------------------------------------------
(* Bounds of the model.                                                    *)

MaxTime == 10      \* time.time()*1000 is drawn from (MaxTime-1)..MaxTime
MaxUses == 2       \* a caller passes the same mapping at most this often

(* Program constants.                                                      *)

Timeout == 10      \* timeout=10 of requests.post / requests.get

API_KEY  == "key"
BASE_URL == "https://testnet.binancefuture.com"
API_SECRET == "s1"
Secrets  == {API_SECRET, "s2"}    \* secrets a BasicBot is constructed with

Times == (MaxTime - 1)..MaxTime

-----------------------------------------------------------------------------
(* Record fields are written in the order in which TLC keeps them (that   *)
(* of the first occurrence of the field's name in this module), so that a *)
(* record value has one representation from the moment it is built.       *)

(* Text.  A Python str is a sequence of tokens.  A token is one character, *)
(* or one parameter name (an identifier of unreserved characters, kept     *)
(* whole), or one HMAC hex digest (64 characters of 0-9a-f, kept whole and *)
(* identified by the key and the message it was computed from).            *)

Ch(c)     == [c |-> c, key |-> "", d |-> <<>>]
Hex(k, m) == [c |-> "#", key |-> k, d |-> m]

Str(cs) == [i \in 1..Len(cs) |-> Ch(cs[i])]

RECURSIVE Concat(_)
Concat(ss) == IF ss = <<>> THEN <<>> ELSE Head(ss) \o Concat(Tail(ss))

Digits == <<"0", "1", "2", "3", "4", "5", "6", "7", "8", "9">>

IsDigit(t) == \E i \in 1..Len(Digits) : t = Ch(Digits[i])
DigitVal(t) == CHOOSE i \in 0..9 : t = Ch(Digits[i + 1])

(* str(n) of a non-negative int *)
RECURSIVE IntStr(_)
IntStr(n) == IF n < 10 THEN <<Ch(Digits[n + 1])>>
             ELSE IntStr(n \div 10) \o <<Ch(Digits[(n % 10) + 1])>>

(* int(text) of a digit string *)
RECURSIVE DigitsVal(_)
DigitsVal(s) == IF s = <<>> THEN 0
                ELSE 10 * DigitsVal(SubSeq(s, 1, Len(s) - 1)) + DigitVal(s[Len(s)])

AllDigits(s) == s # <<>> /\ \A i \in 1..Len(s) : IsDigit(s[i])

(* A Python float of the model is a non-negative multiple of 0.1, held as  *)
(* its number of tenths; str(x) prints it as <int part>.<one digit>.       *)
FloatStr(t) == IntStr(t \div 10) \o <<Ch(".")>> \o IntStr(t % 10)

(* float(text): digits, or digits "." digit; anything else the model draws *)
(* (letters, the empty string) raises ValueError.                          *)
PyFloat(s) ==
    IF AllDigits(s) THEN [t |-> 10 * DigitsVal(s), ok |-> TRUE]
    ELSE IF /\ Len(s) >= 3
            /\ s[Len(s) - 1] = Ch(".")
            /\ IsDigit(s[Len(s)])
            /\ AllDigits(SubSeq(s, 1, Len(s) - 2))
         THEN [t  |-> 10 * DigitsVal(SubSeq(s, 1, Len(s) - 2)) + DigitVal(s[Len(s)]),
               ok |-> TRUE]
         ELSE [t |-> 0, ok |-> FALSE]

(* str.strip(): drop leading and trailing blanks *)
RECURSIVE LStrip(_)
LStrip(s) == IF s # <<>> /\ Head(s) = Ch(" ") THEN LStrip(Tail(s)) ELSE s
RECURSIVE RStrip(_)
RStrip(s) == IF s # <<>> /\ s[Len(s)] = Ch(" ")
             THEN RStrip(SubSeq(s, 1, Len(s) - 1)) ELSE s
Strip(s) == RStrip(LStrip(s))

(* str.upper() on the letters the model draws *)
UpperCh(t) == CASE t = Ch("b") -> Ch("B")
                [] t = Ch("t") -> Ch("T")
                [] t = Ch("c") -> Ch("C")
                [] t = Ch("u") -> Ch("U")
                [] t = Ch("y") -> Ch("Y")
                [] OTHER       -> t
Upper(s) == [i \in 1..Len(s) |-> UpperCh(s[i])]

-----------------------------------------------------------------------------
(* Python values that occur as parameter values.                           *)

PyInt(n)    == [n |-> n, s |-> <<>>, ty |-> "int"]
PyFlt(t)    == [n |-> t, s |-> <<>>, ty |-> "float"]
PyTxt(s)    == [n |-> 0, s |-> s,    ty |-> "str"]
PyNone      == [n |-> 0, s |-> <<>>, ty |-> "None"]

(* str(v), the coercion urlencode applies to a value *)
PyStr(v) == CASE v.ty = "int"   -> IntStr(v.n)
              [] v.ty = "float" -> FloatStr(v.n)
              [] v.ty = "str"   -> v.s
              [] v.ty = "None"  -> Str(<<"N", "o", "n", "e">>)

(* A dict is a sequence of items [k, v] in insertion order, keys distinct. *)
Keys(p)      == [i \in 1..Len(p) |-> p[i].k]
KeySet(p)    == {p[i].k : i \in 1..Len(p)}
HasKey(p, k) == k \in KeySet(p)
CountKey(p, k) == Cardinality({i \in 1..Len(p) : p[i].k = k})
DictIdx(p, k) == CHOOSE i \in 1..Len(p) : p[i].k = k
DictVal(p, k) == p[DictIdx(p, k)].v

(* p[k] = v: an existing key keeps its place, a new key goes last *)
DictSet(p, k, v) ==
    IF HasKey(p, k)
    THEN [i \in 1..Len(p) |-> IF p[i].k = k THEN [k |-> k, v |-> v] ELSE p[i]]
    ELSE Append(p, [k |-> k, v |-> v])

(* del p[k] *)
DictDel(p, k) == SelectSeq(p, LAMBDA it : it.k # k)

-----------------------------------------------------------------------------
(* urllib.parse.urlencode: quote_plus of each name and of str(value),      *)
(* joined as name=value with "&" between the items.                        *)

(* quote_plus of one token: a blank becomes "+", the reserved characters   *)
(* the model draws become %XX, every other token (letters, digits, ".",    *)
(* parameter names, hex digests) is unreserved and stays as it is.         *)
QuoteCh(t) == CASE t = Ch(" ") -> Str(<<"+">>)
                [] t = Ch("&") -> Str(<<"%", "2", "6">>)
                [] t = Ch("=") -> Str(<<"%", "3", "D">>)
                [] t = Ch("+") -> Str(<<"%", "2", "B">>)
                [] t = Ch("%") -> Str(<<"%", "2", "5">>)
                [] OTHER       -> <<t>>

quote_plus(s) == Concat([i \in 1..Len(s) |-> QuoteCh(s[i])])

QuotePair(it) == quote_plus(<<Ch(it.k)>>) \o <<Ch("=")>> \o quote_plus(PyStr(it.v))

RECURSIVE urlencode(_)
urlencode(p) ==
    IF p = <<>> THEN <<>>
    ELSE IF Len(p) = 1 THEN QuotePair(p[1])
    ELSE urlencode(SubSeq(p, 1, Len(p) - 1)) \o <<Ch("&")>> \o QuotePair(p[Len(p)])

(* hmac.new(key, msg, hashlib.sha256).hexdigest(): HMAC-SHA256 is taken as *)
(* collision free on the keys and messages of the model, so a digest is    *)
(* identified by its key and its message.  (HMAC pads a short key with     *)
(* zero bytes and hashes a key longer than its block; the secrets of the   *)
(* model are not related in that way.)                                     *)
hexdigest(key, msg) == <<Hex(key, msg)>>

(* BasicBot._sign, mutated: the secret does not enter the digest *)
_sign_NoSecret(secret, params) == hexdigest("", urlencode(params))

(* BasicBot._sign *)
_sign(secret, params) == hexdigest(secret, urlencode(params))

-----------------------------------------------------------------------------
(* The HTTP layer (requests.post / requests.get followed by r.json()).     *)
(* A JSON body is a list of entries or an object; of an object the model   *)
(* keeps the names of its fields, which is what iterating it yields.       *)

Entry(isdict, asset, wa) ==
    [isdict |-> isdict, asset |-> asset, wa |-> wa,
     hasAsset |-> asset # "", hasWA |-> wa # <<>>]

JList(items) == [msg |-> "", items |-> items, shape |-> "list", keys |-> <<>>]
JDict(keys)  == [msg |-> "", items |-> <<>>,  shape |-> "dict", keys |-> keys]
(* {"error": str(e)} *)
ErrorObj(desc) == [msg |-> desc, items |-> <<>>, shape |-> "dict", keys |-> <<"error">>]
NoBody == JDict(<<>>)

(* What the call of the HTTP layer does:                                   *)
(*   response   r.json() parses, r.status_code = status                    *)
(*   transport  requests raises a RequestException (ConnectionError,       *)
(*              Timeout)                                                   *)
(*   not_json   r.json() fails on the body: a RequestException in recent   *)
(*              releases of requests (JSONDecodeError), a plain ValueError *)
(*              in older ones                                              *)
Response(status, body) == [desc |-> "", status |-> status, body |-> body,
                           kind |-> "response", raises |-> ""]
Transport(desc) == [desc |-> desc, status |-> 0, body |-> NoBody,
                    kind |-> "transport", raises |-> "RequestException"]
NotJson(raises) == [desc |-> "Expecting value", status |-> 200, body |-> NoBody,
                    kind |-> "not_json", raises |-> raises]

Request(method, path, params) ==
    [params |-> params, method |-> method, url |-> <<BASE_URL, path>>,
     apikey |-> API_KEY, timeout |-> Timeout]

Log(lvl, msg) == [msg |-> msg, lvl |-> lvl]

(* The try block, mutated: the except clause is missing *)
Try_Raises(req, out, failmsg) ==
    IF out.kind = "response"
    THEN [data |-> out.body, req |-> req, exc |-> "none",
          logs |-> <<Log("info", req.method),
                     IF out.status # 200 THEN Log("error", "Error response")
                                         ELSE Log("info", "Success response")>>]
    ELSE [data |-> NoBody, req |-> req, exc |-> out.raises,
          logs |-> <<Log("info", req.method)>>]

(* Lines 32-42 / 54-64: the try block around the HTTP call *)
Try(req, out, failmsg) ==
    CASE out.kind = "response" ->
            [data |-> out.body, req |-> req, exc |-> "none",
             logs |-> <<Log("info", req.method),
                        IF out.status # 200 THEN Log("error", "Error response")
                                            ELSE Log("info", "Success response")>>]
      [] out.raises = "RequestException" ->
            [data |-> ErrorObj(out.desc), req |-> req, exc |-> "none",
             logs |-> <<Log("info", req.method), Log("error", failmsg)>>]
      [] OTHER ->
            [data |-> NoBody, req |-> req, exc |-> out.raises,
             logs |-> <<Log("info", req.method)>>]

(* Lines 27 / 49: params['signature'] = self._sign(params) *)
Signed(secret, params) == DictSet(params, "signature", PyTxt(_sign(secret, params)))

(* Lines 26-27 / 48-49: stamp and sign the mapping in place *)
Stamp(secret, params, now) == Signed(secret, DictSet(params, "timestamp", PyInt(now)))

(* Lines 28-42 / 50-64: the call with the stamped mapping; the result, and *)
(* `params` as the call leaves it                                          *)
Deliver(method, path, stamped, out, failmsg) ==
    [params |-> stamped, r |-> Try(Request(method, path, stamped), out, failmsg)]

(* BasicBot._post *)
_post(secret, path, params, now, out) ==
    Deliver("POST", path, Stamp(secret, params, now), out, "HTTP request failed")

(* BasicBot._get; params = None is the empty mapping *)
_get(secret, path, params, now, out) ==
    Deliver("GET", path, Stamp(secret, params, now), out, "HTTP GET failed")

-----------------------------------------------------------------------------
(* BasicBot.get_balance                                                    *)

(* Lines 71-77: the loop over `data`.  Iterating a JSON object yields its  *)
(* field names, which are str and have no .get; an entry of a list that is *)
(* no object has none either.                                              *)
(* Line 73-75: float(...) of the field, the log line, the return *)
Free(f) ==
    IF f.ok THEN [exc |-> "none", logs |-> <<Log("info", "balance")>>, val |-> f.t]
    ELSE [exc |-> "ValueError", logs |-> <<>>, val |-> 0]

RECURSIVE ScanEntries(_, _)
ScanEntries(items, asset) ==
    IF items = <<>>
    THEN [exc |-> "none", logs |-> <<Log("error", "not found")>>, val |-> 0]
    ELSE IF ~Head(items).isdict
    THEN [exc |-> "AttributeError", logs |-> <<>>, val |-> 0]
    ELSE IF Head(items).hasAsset /\ Head(items).asset = asset
    THEN IF ~Head(items).hasWA
         THEN Free([t |-> 0, ok |-> TRUE])
         ELSE Free(PyFloat(Head(items).wa))
    ELSE ScanEntries(Tail(items), asset)

Iterate(body) ==
    IF body.shape = "list" THEN body.items
    ELSE [i \in 1..Len(body.keys) |-> Entry(FALSE, "", <<>>)]

(* Lines 70-77 once _get has returned (or raised) *)
Scanned(g, s) ==
    [req |-> g.req, exc |-> s.exc, logs |-> g.logs \o s.logs, val |-> s.val]

Looked(g, asset) ==
    IF g.exc # "none"
    THEN [req |-> g.req, exc |-> g.exc, logs |-> g.logs, val |-> 0]
    ELSE Scanned(g, ScanEntries(Iterate(g.data), asset))

get_balance(secret, asset, now, out) ==
    Looked(_get(secret, "/fapi/v2/balance", <<>>, now, out).r, asset)

-----------------------------------------------------------------------------
(* BasicBot.place_order                                                    *)

Word(w) == PyTxt(<<Ch(w)>>)     \* a literal of unreserved characters

(* The mapping, mutated: price and stopPrice are set only when supplied *)
OrderParams_OmitNone(symbol_, side_, order_type, quantity, price, stop_price_) ==
    LET base == << [k |-> "symbol",   v |-> symbol_],
                   [k |-> "side",     v |-> side_],
                   [k |-> "type",     v |-> Word(order_type)],
                   [k |-> "quantity", v |-> quantity] >>
        withStop  == IF order_type = "STOP" /\ stop_price_ # PyNone
                     THEN DictSet(base, "stopPrice", stop_price_) ELSE base
        withPrice == IF order_type \in {"LIMIT", "STOP"} /\ price # PyNone
                     THEN DictSet(withStop, "price", price) ELSE withStop
    IN  IF order_type \in {"LIMIT", "STOP"}
        THEN DictSet(withPrice, "timeInForce", Word("GTC"))
        ELSE withPrice

(* Lines 95-97 *)
IfLimit(params, order_type, price) ==
    IF order_type = "LIMIT"
    THEN DictSet(DictSet(params, "price", price), "timeInForce", Word("GTC"))
    ELSE params

(* Lines 98-101 *)
IfStop(params, order_type, price, stop_price_) ==
    IF order_type = "STOP"
    THEN DictSet(DictSet(DictSet(params, "stopPrice", stop_price_),
                         "price", price), "timeInForce", Word("GTC"))
    ELSE params

(* Lines 87-101: the mapping built for the order *)
OrderParams(symbol_, side_, order_type, quantity, price, stop_price_) ==
    IfStop(IfLimit(<< [k |-> "symbol",   v |-> symbol_],
                      [k |-> "side",     v |-> side_],
                      [k |-> "type",     v |-> Word(order_type)],
                      [k |-> "quantity", v |-> quantity] >>,
                   order_type, price),
           order_type, price, stop_price_)

place_order(secret, symbol_, side_, order_type, quantity, price, stop_price_, now, out) ==
    _post(secret, "/fapi/v1/order",
          OrderParams(symbol_, side_, order_type, quantity, price, stop_price_),
          now, out).r

-----------------------------------------------------------------------------
(* What the environment can do.                                            *)

T_1    == Str(<<"1">>)
T_0_5  == Str(<<"0", ".", "5">>)
T_12_5 == Str(<<"1", "2", ".", "5">>)

GetOuts ==
    { Response(200, JList(<<Entry(TRUE, "BTC", T_1), Entry(TRUE, "USDT", T_12_5),
                            Entry(TRUE, "USDT", T_0_5)>>)),
      Response(200, JList(<<Entry(TRUE, "USDT", T_0_5)>>)),
      Response(200, JList(<<Entry(TRUE, "BTC", T_1)>>)),
      Response(200, JList(<<Entry(TRUE, "USDT", <<>>)>>)),
      Response(200, JList(<<Entry(TRUE, "USDT", Str(<<"a">>))>>)),
      Response(200, JList(<<>>)),
      Response(200, JDict(<<>>)),
      Response(400, JDict(<<"code", "msg">>)),
      Transport("timed out"),
      NotJson("RequestException"),
      NotJson("ValueError") }

PostOuts ==
    { Response(200, JDict(<<"orderId", "status">>)),
      Response(400, JDict(<<"code", "msg">>)),
      Transport("timed out"),
      NotJson("RequestException"),
      NotJson("ValueError") }

ChoiceInputs == { Str(<<"1">>), Str(<<"2">>), Str(<<"3">>), Str(<<"4">>), Str(<<"5">>),
                  Str(<<" ", "5", " ">>), Str(<<"9">>), <<>> }
SymbolInputs == { Str(<<"b", "t", "c">>), Str(<<" ", "B", "T", "C">>), Str(<<"b", "&", "t">>) }
SideInputs   == { Str(<<"b", "u", "y">>), Str(<<"B", "U", "Y", " ">>) }
NumInputs    == { T_1, Str(<<" ", "0", ".", "5">>), Str(<<"a">>), <<>> }
PriceInputs  == { Str(<<"2", " ">>), Str(<<"1", ".", "x">>), <<>> }

-----------------------------------------------------------------------------
(* BasicBot.menu, one step per blocking input().                           *)

Ev(e, a, v) == [v |-> v, e |-> e, a |-> a]
Sent(req, out) == [req |-> req, out |-> out]
LogEvents(logs) == [i \in 1..Len(logs) |-> Ev("log", logs[i].lvl, 0)]

(* Lines 123-124 / 128-129 once get_balance has returned (or raised) *)
Shown(gb, bal, rs) ==
    [balance |-> IF gb.exc = "none" THEN gb.val ELSE bal,
     events |-> <<Ev("http", "GET", 0)>> \o LogEvents(gb.logs) \o
                IF gb.exc = "none" THEN <<Ev("print", "balance", gb.val)>>
                                   ELSE <<Ev("raise", gb.exc, 0)>>,
     reqs |-> rs,
     exc |-> gb.exc]

Fetched(gb, out) == <<Sent(gb.req, out)>>

(* Lines 123-124 / 128-129, mutated: the order choices print the balance   *)
(* the loop already holds instead of fetching it                           *)
ShowBalance_Cached(secret, ch, bal, now, out) ==
    IF ch = Str(<<"1">>)
    THEN Shown(get_balance(secret, "USDT", now, out), bal,
               Fetched(get_balance(secret, "USDT", now, out), out))
    ELSE [balance |-> bal, events |-> <<Ev("print", "balance", bal)>>, reqs |-> <<>>,
          exc |-> "none"]

(* Lines 123-124 / 128-129, mutated: a failed fetch is tried once more *)
ShowBalance_Twice(secret, ch, bal, now, out) ==
    Shown(get_balance(secret, "USDT", now, out), bal,
          IF out.kind = "response" /\ out.status = 200
          THEN Fetched(get_balance(secret, "USDT", now, out), out)
          ELSE Fetched(get_balance(secret, "USDT", now, out), out)
               \o Fetched(get_balance(secret, "USDT", now, out), out))

FetchAndShow(gb, bal, out) == Shown(gb, bal, Fetched(gb, out))

(* Lines 123-124 / 128-129: balance = self.get_balance("USDT"); print.    *)
(* The code does the same for every choice `ch` that gets here.           *)
ShowBalance(secret, ch, bal, now, out) ==
    FetchAndShow(get_balance(secret, "USDT", now, out), bal, out)

(* The locals symbol, side, qty, stop_price and data are bound again before *)
(* they are read in every iteration; they are shown unbound from the read  *)
(* of the next choice on.  `balance` is kept as the loop keeps it.         *)
Unbind ==
    /\ symbol' = <<>> /\ side' = <<>>
    /\ qty' = 0 /\ stop_price' = 0
    /\ data' = NoBody

(* Lines 123-124 / 128-129: the locals and the position after the balance *)
(* was fetched and printed, or get_balance raised                          *)
Balanced(sb, then) ==
    /\ balance' = sb.balance
    /\ reqs' = sb.reqs
    /\ events' = <<Ev("input", "choice", 0)>> \o sb.events
    /\ pc' = IF sb.exc = "none" THEN then ELSE "crashed"

(* Lines 116-120: choice "5" *)
MenuExit(text) ==
    /\ pc = "idle"
    /\ entered' = text
    /\ Strip(text) = Str(<<"5">>)
    /\ choice' = Strip(text)
    /\ events' = <<Ev("input", "choice", 0), Ev("print", "Goodbye!", 0)>>
    /\ reqs' = <<>>
    /\ pc' = "exited"
    /\ Unbind
    /\ UNCHANGED <<balance, api_secret>>
    /\ UNCHANGED apiVars

(* Lines 116-125: choice "1" *)
MenuBalance(text, now, out) ==
    /\ pc = "idle"
    /\ entered' = text
    /\ Strip(text) = Str(<<"1">>)
    /\ choice' = Strip(text)
    /\ Balanced(ShowBalance(api_secret, Strip(text), balance, now, out), "idle")
    /\ Unbind
    /\ UNCHANGED api_secret
    /\ UNCHANGED apiVars

(* Lines 116-131: any other choice, up to the symbol prompt *)
MenuOrder(text, now, out) ==
    /\ pc = "idle"
    /\ entered' = text
    /\ Strip(text) \notin {Str(<<"5">>), Str(<<"1">>)}
    /\ choice' = Strip(text)
    /\ Balanced(ShowBalance(api_secret, Strip(text), balance, now, out), "symbol")
    /\ Unbind
    /\ UNCHANGED api_secret
    /\ UNCHANGED apiVars

(* Line 131 *)
InputSymbol(text) ==
    /\ pc = "symbol"
    /\ entered' = text
    /\ symbol' = Upper(Strip(text))
    /\ events' = Append(events, Ev("input", "symbol", 0))
    /\ pc' = "side"
    /\ UNCHANGED <<choice, side, qty, stop_price, balance, reqs, data, api_secret>>
    /\ UNCHANGED apiVars

(* Line 132 *)
InputSide(text) ==
    /\ pc = "side"
    /\ entered' = text
    /\ side' = Upper(Strip(text))
    /\ events' = Append(events, Ev("input", "side", 0))
    /\ pc' = "quantity"
    /\ UNCHANGED <<choice, symbol, qty, stop_price, balance, reqs, data, api_secret>>
    /\ UNCHANGED apiVars

(* Lines 87-103 as the menu calls them, and line 151 *)
Ordered(po, out) ==
    /\ reqs' = Append(reqs, Sent(po.req, out))
    /\ data' = IF po.exc = "none" THEN po.data ELSE data
    /\ events' = events \o <<Ev("input", "number", 0), Ev("http", "POST", 0)>>
                        \o LogEvents(po.logs)
                        \o IF po.exc = "none" THEN <<Ev("print", "Order response", 0)>>
                                              ELSE <<Ev("raise", po.exc, 0)>>
    /\ pc' = IF po.exc = "none" THEN "idle" ELSE "crashed"

Submit(secret, order_type, price, now, out) ==
    Ordered(place_order(secret, PyTxt(symbol), PyTxt(side), order_type,
                        PyFlt(qty'), price, PyFlt(stop_price), now, out), out)

(* A float() that fails, mutated: the error is caught and the prompt      *)
(* is shown again                                                          *)
ParseFails_Reprompt ==
    /\ events' = events \o <<Ev("input", "number", 0), Ev("print", "Invalid number.", 0)>>
    /\ pc' = pc
    /\ UNCHANGED <<qty, stop_price, reqs, data>>

(* A float() that fails: ValueError leaves menu() *)
ParseFails ==
    /\ events' = events \o <<Ev("input", "number", 0), Ev("raise", "ValueError", 0)>>
    /\ pc' = "crashed"
    /\ UNCHANGED <<qty, stop_price, reqs, data>>

(* Lines 133-136 and 147-151: the quantity, then the dispatch on choice *)
InputQuantity(text, now, out) ==
    /\ pc = "quantity"
    /\ entered' = text
    /\ IF ~PyFloat(Strip(text)).ok THEN ParseFails
           ELSE /\ qty' = PyFloat(Strip(text)).t
                /\ UNCHANGED stop_price
                /\ CASE choice = Str(<<"2">>) ->
                            Submit(api_secret, "MARKET", PyNone, now, out)
                     [] choice = Str(<<"3">>) ->
                            /\ pc' = "limit_price"
                            /\ events' = Append(events, Ev("input", "number", 0))
                            /\ UNCHANGED <<reqs, data>>
                     [] choice = Str(<<"4">>) ->
                            /\ pc' = "stop_price"
                            /\ events' = Append(events, Ev("input", "number", 0))
                            /\ UNCHANGED <<reqs, data>>
                     [] OTHER ->
                            /\ pc' = "idle"
                            /\ events' = events \o <<Ev("input", "number", 0),
                                                     Ev("print", "Invalid choice.", 0)>>
                            /\ UNCHANGED <<reqs, data>>
    /\ UNCHANGED <<choice, symbol, side, balance, api_secret>>
    /\ UNCHANGED apiVars

(* Lines 138-140: choice "3" *)
InputLimitPrice(text, now, out) ==
    /\ pc = "limit_price"
    /\ entered' = text
    /\ IF ~PyFloat(Strip(text)).ok THEN ParseFails
           ELSE /\ UNCHANGED <<qty, stop_price>>
                /\ Submit(api_secret, "LIMIT", PyFlt(PyFloat(Strip(text)).t), now, out)
    /\ UNCHANGED <<choice, symbol, side, balance, api_secret>>
    /\ UNCHANGED apiVars

(* Line 143: choice "4", the trigger price *)
InputStopPrice(text) ==
    /\ pc = "stop_price"
    /\ entered' = text
    /\ IF ~PyFloat(Strip(text)).ok THEN ParseFails
           ELSE /\ stop_price' = PyFloat(Strip(text)).t
                /\ events' = Append(events, Ev("input", "number", 0))
                /\ pc' = "stop_limit_price"
                /\ UNCHANGED <<qty, reqs, data>>
    /\ UNCHANGED <<choice, symbol, side, balance, api_secret>>
    /\ UNCHANGED apiVars

(* Lines 144-146: choice "4", the limit price *)
InputStopLimitPrice(text, now, out) ==
    /\ pc = "stop_limit_price"
    /\ entered' = text
    /\ IF ~PyFloat(Strip(text)).ok THEN ParseFails
           ELSE /\ UNCHANGED <<qty, stop_price>>
                /\ Submit(api_secret, "STOP", PyFlt(PyFloat(Strip(text)).t), now, out)
    /\ UNCHANGED <<choice, symbol, side, balance, api_secret>>
    /\ UNCHANGED apiVars

-----------------------------------------------------------------------------
(* BasicBot used as a library.                                             *)

Call(op, given, left, asset, otype, price, stop, out, r, val) ==
    [secret |-> api_secret, asset |-> asset, body |-> r.data, req |-> r.req,
     out |-> out, exc |-> r.exc, logs |-> r.logs, val |-> val,
     price |-> price, op |-> op, given |-> given, left |-> left,
     otype |-> otype, stop |-> stop]

NoCall == [secret |-> "", asset |-> "", body |-> NoBody, req |-> Request("", "", <<>>),
           out |-> Transport(""), exc |-> "none", logs |-> <<>>, val |-> 0,
           price |-> PyNone, op |-> "none", given |-> <<>>, left |-> <<>>,
           otype |-> "", stop |-> PyNone]

ClientCall(op, p, out, c) ==
    Call(op, p, c.params, "", "", PyNone, PyNone, out, c.r, 0)

BalanceCall(asset, out, gb) ==
    Call("get_balance", <<>>, <<>>, asset, "", PyNone, PyNone, out,
         [data |-> NoBody, req |-> gb.req, exc |-> gb.exc, logs |-> gb.logs], gb.val)

T_a == <<Ch("a")>>

(* Mappings a caller builds *)
FreshParams ==
    { <<>>,
      <<[k |-> "quantity", v |-> PyInt(1)]>>,
      <<[k |-> "quantity", v |-> PyTxt(T_1)]>>,
      <<[k |-> "symbol", v |-> PyTxt(<<Ch("a"), Ch("&"), Ch("price"), Ch("="), Ch("1")>>)]>>,
      <<[k |-> "symbol", v |-> PyTxt(T_a)], [k |-> "price", v |-> PyInt(1)]>>,
      <<[k |-> "price", v |-> PyInt(1)], [k |-> "symbol", v |-> PyTxt(T_a)]>>,
      <<[k |-> "timestamp", v |-> PyInt(3)], [k |-> "symbol", v |-> PyTxt(T_a)]>> }

(* _post and _get write into the caller's mapping, so the caller may pass  *)
(* the mapping the last call left.                                         *)
Reusable == IF last.op \in {"_post", "_get"} /\ uses < MaxUses THEN {last.left} ELSE {}

(* Lines 12-17 *)
Construct(s) ==
    /\ api_secret' = s
    /\ UNCHANGED <<uses, last, signLog>>
    /\ UNCHANGED menuVars

(* Lines 24-42 *)
CallPost(p, now, out) ==
    /\ last' = ClientCall("_post", p, out, _post(api_secret, "/fapi/v1/order", p, now, out))
    /\ uses' = IF p \in Reusable THEN uses + 1 ELSE 1
    /\ UNCHANGED <<api_secret, signLog>>
    /\ UNCHANGED menuVars

(* Lines 44-64; params = None is the empty mapping of FreshParams *)
CallGet(p, now, out) ==
    /\ last' = ClientCall("_get", p, out, _get(api_secret, "/fapi/v2/balance", p, now, out))
    /\ uses' = IF p \in Reusable THEN uses + 1 ELSE 1
    /\ UNCHANGED <<api_secret, signLog>>
    /\ UNCHANGED menuVars

(* Lines 66-77 *)
CallGetBalance(asset, now, out) ==
    /\ last' = BalanceCall(asset, out, get_balance(api_secret, asset, now, out))
    /\ uses' = 0
    /\ UNCHANGED <<api_secret, signLog>>
    /\ UNCHANGED menuVars

(* Lines 79-103 *)
CallPlaceOrder(sym, sd, order_type, quantity, price, stop, now, out) ==
    /\ last' = Call("place_order", <<>>, <<>>, "", order_type, price, stop, out,
                     place_order(api_secret, sym, sd, order_type, quantity, price, stop,
                                 now, out), 0)
    /\ uses' = 0
    /\ UNCHANGED <<api_secret, signLog>>
    /\ UNCHANGED menuVars

(* Lines 19-22; the log keeps the last two calls *)
CallSign(p) ==
    /\ signLog' = (IF Len(signLog) = 2 THEN Tail(signLog) ELSE signLog)
                   \o <<[secret |-> api_secret, params |-> p, sig |-> _sign(api_secret, p)]>>
    /\ UNCHANGED <<api_secret, uses, last>>
    /\ UNCHANGED menuVars

Assets     == {"USDT", "BTC"}
OrderTypes == {"MARKET", "LIMIT", "STOP", "TAKE_PROFIT"}
Prices     == {PyNone, PyFlt(20)}
StopPrices == {PyNone, PyFlt(15)}

Init ==
    /\ pc = "idle"
    /\ entered = <<>> /\ choice = <<>> /\ symbol = <<>> /\ side = <<>>
    /\ qty = 0 /\ stop_price = 0 /\ balance = 0
    /\ events = <<>> /\ reqs = <<>> /\ data = NoBody
    /\ api_secret = API_SECRET
    /\ uses = 0 /\ last = NoCall /\ signLog = <<>>

Next ==
    \/ \E text \in ChoiceInputs : MenuExit(text)
    \/ \E text \in ChoiceInputs, now \in Times, out \in GetOuts : MenuBalance(text, now, out)
    \/ \E text \in ChoiceInputs, now \in Times, out \in GetOuts : MenuOrder(text, now, out)
    \/ \E text \in SymbolInputs : InputSymbol(text)
    \/ \E text \in SideInputs : InputSide(text)
    \/ \E text \in NumInputs, now \in Times, out \in PostOuts : InputQuantity(text, now, out)
    \/ \E text \in PriceInputs, now \in Times, out \in PostOuts : InputLimitPrice(text, now, out)
    \/ \E text \in PriceInputs : InputStopPrice(text)
    \/ \E text \in PriceInputs, now \in Times, out \in PostOuts : InputStopLimitPrice(text, now, out)

Spec == Init /\ [][Next]_vars

NextApi ==
    \/ \E p \in FreshParams \cup Reusable, now \in Times, out \in PostOuts :
            CallPost(p, now, out)
    \/ \E p \in FreshParams \cup Reusable, now \in Times, out \in PostOuts :
            CallGet(p, now, out)
    \/ \E asset \in Assets, now \in Times, out \in GetOuts :
            CallGetBalance(asset, now, out)
    \/ \E order_type \in OrderTypes, price \in Prices, stop \in StopPrices,
          now \in Times, out \in PostOuts :
            CallPlaceOrder(PyTxt(Str(<<"B", "T", "C">>)), PyTxt(Str(<<"B", "U", "Y">>)),
                           order_type, PyFlt(5), price, stop, now, out)

SpecApi == Init /\ [][NextApi]_vars

NextSign ==
    \/ \E s \in Secrets : Construct(s)
    \/ \E p \in FreshParams : CallSign(p)

SpecSign == Init /\ [][NextSign]_vars

-----------------------------------------------------------------------------
(* Properties.                                                             *)

IsClientCall == last.op \in {"_post", "_get"}

Methods(rs) == [i \in 1..Len(rs) |-> rs[i].req.method]
HasEv(e, a) == \E i \in 1..Len(events) : events[i].e = e /\ events[i].a = a
FirstEv(e, a) == CHOOSE i \in 1..Len(events) :
                    /\ events[i].e = e /\ events[i].a = a
                    /\ \A j \in 1..(i - 1) : ~(events[j].e = e /\ events[j].a = a)
Inputs == SelectSeq(events, LAMBDA ev : ev.e = "input")
LastInput == IF Inputs = <<>> THEN "" ELSE Inputs[Len(Inputs)].a

ValidChoices == {Str(<<"1">>), Str(<<"2">>), Str(<<"3">>), Str(<<"4">>), Str(<<"5">>)}
OrderChoices == {Str(<<"2">>), Str(<<"3">>), Str(<<"4">>)}
NonNumeric   == {Str(<<"a">>), Str(<<"1", ".", "x">>), <<>>}

(* The free amount the specification expects of a balance response: that  *)
(* of the first entry of the list whose asset is the one asked for.       *)
Matches(body, asset) ==
    IF body.shape # "list" THEN {}
    ELSE {i \in 1..Len(body.items) :
            /\ body.items[i].isdict
            /\ body.items[i].hasAsset
            /\ body.items[i].asset = asset}
FirstMatch(body, asset) ==
    body.items[CHOOSE i \in Matches(body, asset) : \A j \in Matches(body, asset) : i <= j]

(* C1: every request _post or _get hands to the HTTP layer carries exactly *)
(* one timestamp and one signature, and the signature is _sign of the      *)
(* transmitted parameters without the signature field.                     *)
C1_SignatureOverFinalParams ==
    IsClientCall =>
        LET p == last.req.params
        IN  /\ CountKey(p, "timestamp") = 1
            /\ CountKey(p, "signature") = 1
            /\ DictVal(p, "signature") = PyTxt(_sign(last.secret, DictDel(p, "signature")))

(* C2: when the HTTP call of _post or _get fails at transport level, the   *)
(* call does not raise and returns {"error": <description>}.               *)
C2_TransportFailureReturnsError ==
    (IsClientCall /\ last.out.kind = "transport") =>
        /\ last.exc = "none"
        /\ last.body.shape = "dict"
        /\ last.body.keys = <<"error">>
        /\ last.body.msg = last.out.desc

C2_Witness ==
    /\ last.op = "_get"
    /\ last.out.kind = "transport"
    /\ last.body = ErrorObj("timed out")

(* C3: get_balance always returns a number: the free amount of the first   *)
(* entry whose asset matches, and 0.0 with an error logged when no entry   *)
(* matches or the response is malformed (an error object, not a list).     *)
C3_GetBalanceReturnsNumber ==
    last.op = "get_balance" =>
        /\ last.exc = "none"
        /\ LET body == last.out.body
               ok   == last.out.kind = "response" /\ Matches(body, last.asset) # {}
           IN  IF ok /\ FirstMatch(body, last.asset).hasWA
                     /\ PyFloat(FirstMatch(body, last.asset).wa).ok
               THEN last.val = PyFloat(FirstMatch(body, last.asset).wa).t
               ELSE /\ last.val = 0
                    /\ ok \/ \E i \in 1..Len(last.logs) : last.logs[i].lvl = "error"

(* C4: a transport failure of an HTTP call made in a menu iteration never  *)
(* ends the menu loop: the loop goes back to awaiting the next choice.     *)
C4_TransportFailureKeepsMenu ==
    (\E i \in 1..Len(reqs) : reqs[i].out.kind = "transport") => pc = "idle"

(* C5: the parameter names place_order transmits depend on the order type  *)
(* alone, whether or not price and stop_price are supplied.                *)
C5_ParamNamesByType ==
    last.op = "place_order" =>
        LET p    == last.req.params
            base == {"symbol", "side", "type", "quantity", "timestamp", "signature"}
        IN  /\ Cardinality(KeySet(p)) = Len(p)
            /\ last.otype = "MARKET" => KeySet(p) = base
            /\ last.otype = "LIMIT" =>
                    /\ KeySet(p) = base \cup {"price", "timeInForce"}
                    /\ DictVal(p, "timeInForce") = Word("GTC")
            /\ last.otype = "STOP" =>
                    /\ KeySet(p) = base \cup {"price", "stopPrice", "timeInForce"}
                    /\ DictVal(p, "timeInForce") = Word("GTC")

C5_Witness ==
    /\ last.op = "place_order"
    /\ last.otype = "LIMIT"
    /\ last.price = PyNone
    /\ HasKey(last.req.params, "price")

(* C6: an invalid menu choice re-prompts without effect: no HTTP request   *)
(* is issued and no order input is asked for.                              *)
C6_InvalidChoiceNoEffect ==
    (events # <<>> /\ choice \notin ValidChoices) =>
        /\ reqs = <<>>
        /\ ~HasEv("input", "symbol") /\ ~HasEv("input", "side") /\ ~HasEv("input", "number")

(* C7 as claimed: the signature differs whenever the parameter mapping or  *)
(* the secret differs.                                                     *)
C7_SignInjective ==
    \A i, j \in 1..Len(signLog) :
        (signLog[i].params # signLog[j].params \/ signLog[i].secret # signLog[j].secret)
            => signLog[i].sig # signLog[j].sig

(* What urlencode keeps of a mapping: names and str(value), in order *)
Canon(p) == [i \in 1..Len(p) |-> <<p[i].k, PyStr(p[i].v)>>]

(* C7, amended: two _sign calls give the same signature exactly when the   *)
(* secrets are equal and the mappings have the same names with the same    *)
(* str(value) in the same order.                                           *)
C7_SignInjectiveOnText ==
    \A i, j \in 1..Len(signLog) :
        signLog[i].sig = signLog[j].sig
            <=> /\ signLog[i].secret = signLog[j].secret
                /\ Canon(signLog[i].params) = Canon(signLog[j].params)

C7_Witness ==
    /\ Len(signLog) = 2
    /\ signLog[1].params # signLog[2].params
    /\ signLog[1].sig = signLog[2].sig

(* C8 as claimed: a menu iteration issues at most one HTTP call.           *)
C8_AtMostOneHttpCall == Len(reqs) <= 1

(* C8, amended: a menu iteration issues at most two HTTP calls, the        *)
(* balance GET and then at most one order POST; choices 1 and 5 issue at   *)
(* most one.                                                               *)
C8_AtMostGetThenPost ==
    /\ Methods(reqs) \in {<<>>, <<"GET">>, <<"GET", "POST">>}
    /\ choice \in {Str(<<"1">>), Str(<<"5">>)} => Len(reqs) <= 1

C8_Witness == pc = "idle" /\ Methods(reqs) = <<"GET", "POST">>

(* C9: an iteration that submits an order has first issued a balance GET   *)
(* and printed its result: the balance shown is the one of that response.  *)
C9_FreshBalanceBeforeOrder ==
    (\E i \in 1..Len(reqs) : reqs[i].req.method = "POST") =>
        /\ reqs[1].req.method = "GET"
        /\ reqs[1].req.url = <<BASE_URL, "/fapi/v2/balance">>
        /\ HasEv("print", "balance") /\ HasEv("http", "GET")
        /\ FirstEv("http", "GET") < FirstEv("print", "balance")
        /\ FirstEv("print", "balance") < FirstEv("http", "POST")
        /\ LET body == reqs[1].out.body
               m    == Matches(body, "USDT")
           IN  events[FirstEv("print", "balance")].v =
                   IF m # {} /\ FirstMatch(body, "USDT").hasWA
                   THEN PyFloat(FirstMatch(body, "USDT").wa).t ELSE 0

C9_Witness ==
    /\ choice \in OrderChoices
    /\ Methods(reqs) = <<"GET", "POST">>
    /\ HasEv("print", "balance")
    /\ events[FirstEv("print", "balance")].v = 125

(* C10: a non-numeric entry at a numeric prompt is not caught and ends the *)
(* menu loop, and no order POST is sent in that iteration.                 *)
C10_NonNumericTerminates ==
    (LastInput = "number" /\ Strip(entered) \in NonNumeric) =>
        /\ pc = "crashed"
        /\ events[Len(events)] = Ev("raise", "ValueError", 0)
        /\ \A i \in 1..Len(reqs) : reqs[i].req.method # "POST"

C10_Witness ==
    /\ pc = "crashed"
    /\ choice = Str(<<"4">>)
    /\ LastInput = "number"
    /\ entered = Str(<<"1", ".", "x">>)
    /\ Methods(reqs) = <<"GET">>

====
